---- MODULE Spec2Model ----
(***************************************************************************)
(* Model of snr_analysis.py: the SNR of compressed audio against its       *)
(* original, computed per catalog entry, collected into parallel lists and *)
(* handed to matplotlib.                                                   *)
(*                                                                         *)
(* Floating-point numbers (numpy float32 samples, Python floats) are       *)
(* modelled as decimal floating-point numbers m * 10^e with Precision      *)
(* significant digits, round-half-even, flush-to-zero below 10^MinExp10,   *)
(* overflow to infinity above 10^MaxExp10, plus +inf, -inf and NaN.        *)
(* A decibel value 10*log10(r) is represented by its power ratio r (the    *)
(* map is injective, so == on decibel values is == on the ratios).         *)
(***************************************************************************)
EXTENDS Integers, Sequences, FiniteSets, TLC

\* ------------------------------------------------------------------ bounds
\* Significant decimal digits kept by every floating-point operation.
Precision == 3
\* Longest signal the loader returns.
MaxLen == 2

\* ------------------------------------------------- floating-point numbers
\* Decimal exponent range of float32: 1.4e-45 .. 3.4e38.
MinExp10 == -45
MaxExp10 == 38

Fin(m, e) == [k |-> "fin", m |-> m, e |-> e]
Zero == Fin(0, 0)
PosInf == [k |-> "inf", m |-> 0, e |-> 0]
NegInf == [k |-> "ninf", m |-> 0, e |-> 0]
NaN == [k |-> "nan", m |-> 0, e |-> 0]
\* A Python name not yet bound.
Unbound == [k |-> "unbound", m |-> 0, e |-> 0]

Abs(n) == IF n < 0 THEN -n ELSE n
Sign(n) == IF n < 0 THEN -1 ELSE IF n = 0 THEN 0 ELSE 1
Min(a, b) == IF a < b THEN a ELSE b

RECURSIVE Pow10(_)
Pow10(n) == IF n <= 0 THEN 1 ELSE 10 * Pow10(n - 1)

RECURSIVE Digits(_)
Digits(n) == IF n < 10 THEN 1 ELSE 1 + Digits(n \div 10)

\* a with its last d digits rounded away, ties to even.
RoundHalfEven(a, d) ==
    LET p == Pow10(d)
        q == a \div p
        r == a % p
    IN  IF 2 * r > p \/ (2 * r = p /\ q % 2 = 1) THEN q + 1 ELSE q

RECURSIVE StripZeros(_, _)
StripZeros(a, e) ==
    IF a # 0 /\ a % 10 = 0 THEN StripZeros(a \div 10, e + 1) ELSE <<a, e>>

\* The float nearest to m * 10^e.
Norm(m, e) ==
    IF m = 0 THEN Zero
    ELSE LET a == Abs(m)
             d == Digits(a) - Precision
             q == IF d > 0 THEN RoundHalfEven(a, d) ELSE a
             s == StripZeros(q, IF d > 0 THEN e + d ELSE e)
             sci == s[2] + Digits(s[1]) - 1
         IN  IF sci < MinExp10 THEN Zero
             ELSE IF sci > MaxExp10 THEN (IF m < 0 THEN NegInf ELSE PosInf)
             ELSE Fin(Sign(m) * s[1], s[2])

IntToF(n) == Norm(n, 0)

FNeg(x) ==
    CASE x.k = "fin" -> Fin(-x.m, x.e)
      [] x.k = "inf" -> NegInf
      [] x.k = "ninf" -> PosInf
      [] OTHER -> NaN

\* x + y for finite x, y.
FinAdd(x, y) ==
    IF x.m = 0 THEN y
    ELSE IF y.m = 0 THEN x
    ELSE LET px == Precision - Digits(Abs(x.m))
             py == Precision - Digits(Abs(y.m))
             \* both mantissas padded to Precision digits
             mx == x.m * Pow10(px)
             ex == x.e - px
             my == y.m * Pow10(py)
             ey == y.e - py
         IN  IF ex - ey > Precision + 1 THEN x
             ELSE IF ey - ex > Precision + 1 THEN y
             ELSE IF ex >= ey THEN Norm(mx * Pow10(ex - ey) + my, ey)
             ELSE Norm(mx + my * Pow10(ey - ex), ex)

FAdd(x, y) ==
    CASE x.k = "nan" \/ y.k = "nan" -> NaN
      [] x.k = "fin" /\ y.k = "fin" -> FinAdd(x, y)
      [] x.k = "fin" -> y
      [] y.k = "fin" -> x
      [] x.k = y.k -> x
      [] OTHER -> NaN

FSub(x, y) == FAdd(x, FNeg(y))

FMul(x, y) ==
    CASE x.k = "nan" \/ y.k = "nan" -> NaN
      [] x.k = "fin" /\ y.k = "fin" -> Norm(x.m * y.m, x.e + y.e)
      [] (x.k = "fin" /\ x.m = 0) \/ (y.k = "fin" /\ y.m = 0) -> NaN
      [] OTHER ->
           LET sx == IF x.k = "fin" THEN Sign(x.m) ELSE IF x.k = "inf" THEN 1 ELSE -1
               sy == IF y.k = "fin" THEN Sign(y.m) ELSE IF y.k = "inf" THEN 1 ELSE -1
           IN  IF sx * sy > 0 THEN PosInf ELSE NegInf

\* x / y for finite x, y with y # 0.
FinDiv(x, y) ==
    IF x.m = 0 THEN Zero
    ELSE LET px == Precision - Digits(Abs(x.m))
             n == Abs(x.m) * Pow10(px + Precision + 1)
             q == n \div Abs(y.m)
             r == n % Abs(y.m)
             \* a non-zero remainder breaks a tie upwards
             qs == IF r # 0 /\ q % 5 = 0 THEN q + 1 ELSE q
         IN  Norm(Sign(x.m) * Sign(y.m) * qs, x.e - y.e - px - Precision - 1)

FDiv(x, y) ==
    CASE x.k = "nan" \/ y.k = "nan" -> NaN
      [] x.k = "fin" /\ y.k = "fin" ->
           IF y.m # 0 THEN FinDiv(x, y)
           ELSE IF x.m = 0 THEN NaN
           ELSE IF x.m > 0 THEN PosInf ELSE NegInf
      [] x.k = "fin" -> Zero
      [] y.k = "fin" ->
           IF (x.k = "inf") = (y.m >= 0) THEN PosInf ELSE NegInf
      [] OTHER -> NaN

\* Python/numpy ==: NaN equals nothing.
FEq(x, y) == x.k # "nan" /\ y.k # "nan" /\ x = y

IsFinite(x) == x.k \in {"fin", "db"}

\* 10 * np.log10(x), the decibel value of the power ratio x.
Db(m, e) == [k |-> "db", m |-> m, e |-> e]
TenLog10(x) ==
    CASE x.k = "nan" -> NaN
      [] x.k = "inf" -> PosInf
      [] x.k = "ninf" -> NaN
      [] x.m = 0 -> NegInf
      [] x.m < 0 -> NaN
      [] OTHER -> Db(x.m, x.e)

\* ------------------------------------------------------------ the program
VARIABLES files, i, original_signal, compressed_signal, min_length,
          compressed_snr, wav_snr,
          compressed_snr_values, wav_snr_values, algorithm_labels,
          file_sizes, durations, bit_rates,
          compressed_visual_snr_values, wav_visual_snr_values,
          loaded, charts, raised, pc

vars == <<files, i, original_signal, compressed_signal, min_length,
          compressed_snr, wav_snr,
          compressed_snr_values, wav_snr_values, algorithm_labels,
          file_sizes, durations, bit_rates,
          compressed_visual_snr_values, wav_visual_snr_values,
          loaded, charts, raised, pc>>

\* The six parallel lists of the output dataset.
dataset == <<compressed_snr_values, wav_snr_values, algorithm_labels,
             file_sizes, durations, bit_rates>>
locals == <<original_signal, compressed_signal, min_length, compressed_snr, wav_snr>>
visuals == <<compressed_visual_snr_values, wav_visual_snr_values>>

\* The catalog literal.
FILES ==
    << [original |-> "elliot-og.wav", compressed |-> "elliot-mp3.mp3",
        algorithm |-> "ELLIOT-MP3", size_mb |-> Fin(253, -2),
        duration_sec |-> 2 * 60 + 36, bitrate_kbps |-> 128],
       [original |-> "flow-og.wav", compressed |-> "flow-aac.aac",
        algorithm |-> "FLOW-AAC", size_mb |-> Fin(314, -2),
        duration_sec |-> 3 * 60 + 25, bitrate_kbps |-> 160],
       [original |-> "sinatra-og.wav", compressed |-> "sinatra-flac.flac",
        algorithm |-> "SINATRA-FLAC", size_mb |-> Fin(16, 0),
        duration_sec |-> 3 * 60 + 14, bitrate_kbps |-> 1000],
       [original |-> "waltz-og.wav", compressed |-> "waltz-ogg.ogg",
        algorithm |-> "WALTZ-OGG", size_mb |-> Fin(26, -1),
        duration_sec |-> 3 * 60 + 50, bitrate_kbps |-> 192] >>

\* Sample values the loader may return (finite amplitudes in [-1, 1]).
CatalogSamples == {Zero, Fin(1, 0)}
PairSamples == {Zero, Fin(1, 0), Fin(5, -1), Fin(1, -5), Fin(1, -30)}

SeqsUpTo(S, n) == UNION {[1..k -> S] : k \in 0..n}
CatalogSignals == SeqsUpTo(CatalogSamples, MaxLen)
PairSignals == SeqsUpTo(PairSamples, MaxLen)

\* Variant: the trailing n samples, x[-n:], instead of the leading ones.
Slice_Tail(x, n) == SubSeq(x, Len(x) - Min(n, Len(x)) + 1, Len(x))

\* x[:n]
Slice(x, n) == SubSeq(x, 1, Min(n, Len(x)))

\* np.square(x)
Square(x) == [j \in 1..Len(x) |-> FMul(x[j], x[j])]

\* x - y on arrays of one length
Subtract(x, y) == [j \in 1..Len(x) |-> FSub(x[j], y[j])]

RECURSIVE Sum(_)
Sum(x) == IF Len(x) = 0 THEN Zero ELSE FAdd(Sum(SubSeq(x, 1, Len(x) - 1)), x[Len(x)])

\* np.mean(x): the sum over the count; 0/0 = NaN for the empty array
Mean(x) == FDiv(Sum(x), IntToF(Len(x)))

\* Variant: no test for zero noise power before the division.
calculate_snr_NoGuard(original, compressed) ==
    LET signal_power == Mean(Square(original))
        noise_power == Mean(Square(Subtract(original, compressed)))
    IN  TenLog10(FDiv(signal_power, noise_power))

calculate_snr(original, compressed) ==
    LET signal_power == Mean(Square(original))
        noise_power == Mean(Square(Subtract(original, compressed)))
    IN  IF FEq(noise_power, Zero) THEN PosInf
        ELSE TenLog10(FDiv(signal_power, noise_power))

\* The placeholder literal of the visual lists, in dB.
PLACEHOLDER_DB == 100
\* The float d dB, for d a multiple of 10: 10*log10(10^(d/10)).
DbOfInt(d) == Db(1, d \div 10)

\* Variant: every non-finite value is replaced, not only +inf.
Visual_AllNonFinite(values) ==
    [j \in 1..Len(values) |->
        IF values[j].k \in {"inf", "ninf", "nan"} THEN Db(1, 10) ELSE values[j]]

\* [100 if v == np.inf else v for v in values]
Visual(values) ==
    [j \in 1..Len(values) |->
        IF FEq(values[j], PosInf) THEN DbOfInt(PLACEHOLDER_DB) ELSE values[j]]

\* The text drawn above a bar: the infinity glyph or the number.
Glyph == [k |-> "glyph", m |-> 0, e |-> 0]
BarText(value) == IF FEq(value, PosInf) THEN Glyph ELSE value
BarTexts(values) == [j \in 1..Len(values) |-> BarText(values[j])]

Chart(kind, ticks, heights, texts, line) ==
    [kind |-> kind, ticks |-> ticks, heights |-> heights, texts |-> texts, line |-> line]

\* No exception has been raised.
NoError == ""

InitWith(catalog) ==
    /\ files = catalog
    /\ i = 0
    /\ original_signal = <<>>
    /\ compressed_signal = <<>>
    /\ min_length = 0
    /\ compressed_snr = Unbound
    /\ wav_snr = Unbound
    /\ compressed_snr_values = <<>>
    /\ wav_snr_values = <<>>
    /\ algorithm_labels = <<>>
    /\ file_sizes = <<>>
    /\ durations = <<>>
    /\ bit_rates = <<>>
    /\ compressed_visual_snr_values = <<>>
    /\ wav_visual_snr_values = <<>>
    /\ loaded = <<>>
    /\ charts = <<>>
    /\ raised = NoError
    /\ pc = "for"

Init == InitWith(FILES)

\* for i, file in enumerate(files, start=1): the next entry
NextEntry ==
    /\ pc = "for"
    /\ i < Len(files)
    /\ i' = i + 1
    /\ pc' = "load_original"
    /\ UNCHANGED <<files, locals, dataset, visuals, loaded, charts, raised>>

\* the iterator is exhausted
LoopExit ==
    /\ pc = "for"
    /\ i >= Len(files)
    /\ pc' = "substitute"
    /\ UNCHANGED <<files, i, locals, dataset, visuals, loaded, charts, raised>>

\* librosa.load(file["original"]) returns the samples s
LoadOriginal(s) ==
    /\ pc = "load_original"
    /\ original_signal' = s
    /\ loaded' = Append(loaded, files[i].original)
    /\ pc' = "load_compressed"
    /\ UNCHANGED <<files, i, compressed_signal, min_length, compressed_snr, wav_snr,
                   dataset, visuals, charts, raised>>

\* Variant: the failure is caught, the entry skipped and the loop goes on.
LoadOriginalFails_Skip ==
    /\ pc = "load_original"
    /\ loaded' = Append(loaded, files[i].original)
    /\ raised' = files[i].original
    /\ pc' = "for"
    /\ UNCHANGED <<files, i, locals, dataset, visuals, charts>>

\* librosa.load(file["original"]) raises: the script ends with a traceback
LoadOriginalFails ==
    /\ pc = "load_original"
    /\ loaded' = Append(loaded, files[i].original)
    /\ raised' = files[i].original
    /\ pc' = "aborted"
    /\ UNCHANGED <<files, i, locals, dataset, visuals, charts>>

LoadCompressed(s) ==
    /\ pc = "load_compressed"
    /\ compressed_signal' = s
    /\ loaded' = Append(loaded, files[i].compressed)
    /\ pc' = "align"
    /\ UNCHANGED <<files, i, original_signal, min_length, compressed_snr, wav_snr,
                   dataset, visuals, charts, raised>>

LoadCompressedFails ==
    /\ pc = "load_compressed"
    /\ loaded' = Append(loaded, files[i].compressed)
    /\ raised' = files[i].compressed
    /\ pc' = "aborted"
    /\ UNCHANGED <<files, i, locals, dataset, visuals, charts>>

\* truncate both signals to the minimum length
Align ==
    /\ pc = "align"
    /\ min_length' = Min(Len(original_signal), Len(compressed_signal))
    /\ original_signal' = Slice(original_signal, min_length')
    /\ compressed_signal' = Slice(compressed_signal, min_length')
    /\ pc' = "calc"
    /\ UNCHANGED <<files, i, compressed_snr, wav_snr, dataset, visuals, loaded, charts, raised>>

ComputeSnr ==
    /\ pc = "calc"
    /\ compressed_snr' = calculate_snr(original_signal, compressed_signal)
    /\ wav_snr' = calculate_snr(original_signal, original_signal)
    /\ pc' = "store"
    /\ UNCHANGED <<files, i, original_signal, compressed_signal, min_length,
                   dataset, visuals, loaded, charts, raised>>

\* Variant: each result is inserted at the front of its list.
StoreResults_Prepend ==
    /\ pc = "store"
    /\ compressed_snr_values' = <<compressed_snr>> \o compressed_snr_values
    /\ wav_snr_values' = <<wav_snr>> \o wav_snr_values
    /\ algorithm_labels' = <<files[i].algorithm>> \o algorithm_labels
    /\ file_sizes' = <<files[i].size_mb>> \o file_sizes
    /\ durations' = <<FDiv(IntToF(files[i].duration_sec), IntToF(60))>> \o durations
    /\ bit_rates' = <<files[i].bitrate_kbps>> \o bit_rates
    /\ pc' = "for"
    /\ UNCHANGED <<files, i, locals, visuals, loaded, charts, raised>>

\* Variant: the lists are rebound to the current result instead of appended to.
StoreResults_Overwrite ==
    /\ pc = "store"
    /\ compressed_snr_values' = <<compressed_snr>>
    /\ wav_snr_values' = <<wav_snr>>
    /\ algorithm_labels' = <<files[i].algorithm>>
    /\ file_sizes' = <<files[i].size_mb>>
    /\ durations' = <<FDiv(IntToF(files[i].duration_sec), IntToF(60))>>
    /\ bit_rates' = <<files[i].bitrate_kbps>>
    /\ pc' = "for"
    /\ UNCHANGED <<files, i, locals, visuals, loaded, charts, raised>>

\* store results (and print them)
StoreResults ==
    /\ pc = "store"
    /\ compressed_snr_values' = Append(compressed_snr_values, compressed_snr)
    /\ wav_snr_values' = Append(wav_snr_values, wav_snr)
    /\ algorithm_labels' = Append(algorithm_labels, files[i].algorithm)
    /\ file_sizes' = Append(file_sizes, files[i].size_mb)
    /\ durations' = Append(durations, FDiv(IntToF(files[i].duration_sec), IntToF(60)))
    /\ bit_rates' = Append(bit_rates, files[i].bitrate_kbps)
    /\ pc' = "for"
    /\ UNCHANGED <<files, i, locals, visuals, loaded, charts, raised>>

\* replace inf with the placeholder for visualization
Substitute ==
    /\ pc = "substitute"
    /\ compressed_visual_snr_values' = Visual(compressed_snr_values)
    /\ wav_visual_snr_values' = Visual(wav_snr_values)
    /\ pc' = "plot_wav"
    /\ UNCHANGED <<files, i, locals, dataset, loaded, charts, raised>>

PlotWav ==
    /\ pc = "plot_wav"
    /\ charts' = Append(charts,
                   Chart("wav", [j \in 1..Len(files) |-> files[j].original],
                         wav_visual_snr_values, BarTexts(wav_snr_values), <<>>))
    /\ pc' = "plot_combined"
    /\ UNCHANGED <<files, i, locals, dataset, visuals, loaded, raised>>

PlotCombined ==
    /\ pc = "plot_combined"
    /\ charts' = Append(charts,
                   Chart("combined", algorithm_labels, compressed_visual_snr_values,
                         BarTexts(SubSeq(compressed_snr_values, 1,
                                         Min(Len(compressed_snr_values),
                                             Len(compressed_visual_snr_values)))),
                         file_sizes))
    /\ pc' = "plot_durations"
    /\ UNCHANGED <<files, i, locals, dataset, visuals, loaded, raised>>

PlotDurations ==
    /\ pc = "plot_durations"
    /\ charts' = Append(charts, Chart("durations", algorithm_labels, durations, <<>>, <<>>))
    /\ pc' = "plot_bit_rates"
    /\ UNCHANGED <<files, i, locals, dataset, visuals, loaded, raised>>

\* the last figure, then plt.show()
PlotBitRates ==
    /\ pc = "plot_bit_rates"
    /\ charts' = Append(charts, Chart("bit_rates", algorithm_labels, bit_rates, <<>>, <<>>))
    /\ pc' = "done"
    /\ UNCHANGED <<files, i, locals, dataset, visuals, loaded, raised>>

Steps ==
    \/ NextEntry
    \/ LoopExit
    \/ LoadOriginalFails
    \/ LoadCompressedFails
    \/ Align
    \/ ComputeSnr
    \/ StoreResults
    \/ Substitute
    \/ PlotWav
    \/ PlotCombined
    \/ PlotDurations
    \/ PlotBitRates

\* The script on its catalog.
Next ==
    \/ Steps
    \/ \E s \in CatalogSignals : LoadOriginal(s)
    \/ \E s \in CatalogSignals : LoadCompressed(s)

Spec == Init /\ [][Next]_vars

\* The script on a one-entry catalog, with a wider range of samples.
InitPair == InitWith(<<FILES[1]>>)

NextPair ==
    \/ Steps
    \/ \E s \in PairSignals : LoadOriginal(s)
    \/ \E s \in PairSignals : LoadCompressed(s)

SpecPair == InitPair /\ [][NextPair]_vars

\* ------------------------------------------------------------- properties
AfterLoop == {"substitute", "plot_wav", "plot_combined", "plot_durations",
              "plot_bit_rates", "done"}

IsPrefix(x, y) == Len(x) <= Len(y) /\ SubSeq(y, 1, Len(x)) = x

\* The paths the loop loads for the first n entries, in order.
RECURSIVE PathsOf(_, _)
PathsOf(catalog, n) ==
    IF n = 0 THEN <<>>
    ELSE PathsOf(catalog, n - 1) \o <<catalog[n].original, catalog[n].compressed>>

\* C1: when the loop has finished without a load failure, each of the six
\* lists holds exactly one record per catalog entry, record j carries the
\* metadata of entry j, and the loads were those of entries 1..k in order;
\* while the loop runs, entry i's record is at position i and holds the SNR
\* values computed from entry i's signals.
C1_DatasetMatchesCatalog ==
    /\ pc \in AfterLoop =>
         /\ \A n \in 1..6 : Len(dataset[n]) = Len(files)
         /\ \A j \in 1..Len(files) :
              /\ algorithm_labels[j] = files[j].algorithm
              /\ file_sizes[j] = files[j].size_mb
              /\ bit_rates[j] = files[j].bitrate_kbps
              /\ durations[j] = FDiv(IntToF(files[j].duration_sec), IntToF(60))
         /\ loaded = PathsOf(files, Len(files))
    /\ (pc = "for" /\ i > 0) =>
         /\ \A n \in 1..6 : Len(dataset[n]) = i
         /\ compressed_snr_values[i] = compressed_snr
         /\ wav_snr_values[i] = wav_snr
         /\ algorithm_labels[i] = files[i].algorithm
         /\ loaded = PathsOf(files, i)

C1_Witness ==
    /\ pc = "done"
    /\ Len(files) = 4
    /\ Len(compressed_snr_values) = 4
    /\ algorithm_labels[4] = "WALTZ-OGG"

\* C2: every reference SNR in the dataset is the perfect-reconstruction
\* sentinel (+inf), whatever the lengths of the loaded signals.
C2_ReferenceIsSentinel ==
    \A j \in 1..Len(wav_snr_values) : wav_snr_values[j] = PosInf

\* C3: for aligned signals of equal positive length that differ somewhere,
\* the compressed SNR is the finite decibel value of mean(a^2)/mean((a-b)^2):
\* never the sentinel, minus infinity or NaN.
C3_FiniteWhenDifferent ==
    (pc = "store" /\ min_length > 0 /\ original_signal # compressed_signal) =>
        /\ compressed_snr.k = "db"
        /\ LET r == FDiv(Mean(Square(original_signal)),
                         Mean(Square(Subtract(original_signal, compressed_signal))))
           IN  compressed_snr = Db(r.m, r.e)

\* C4: the SNR of a non-empty signal against itself is the sentinel (+inf).
C4_SelfComparisonIsSentinel ==
    (pc = "store" /\ min_length > 0) => wav_snr = PosInf

C4_Witness ==
    /\ pc = "store"
    /\ min_length = 2
    /\ original_signal = <<Zero, Fin(1, -30)>>
    /\ wav_snr = PosInf

\* C5: an entry whose aligned length is zero gets no SNR value and no record:
\* the loop never computes or stores a result with min_length = 0.
C5_EmptyIsRejected ==
    /\ pc = "store" => min_length > 0
    /\ (pc = "for" /\ i > 0) => min_length > 0

\* C6: alignment leaves each signal equal to its own leading prefix of length
\* min(m, n), where m and n are the loaded lengths.
C6_AlignTakesPrefixes ==
    [][pc = "align" =>
         LET n == IF Len(original_signal) <= Len(compressed_signal)
                  THEN Len(original_signal) ELSE Len(compressed_signal)
         IN  /\ Len(original_signal') = n
             /\ Len(compressed_signal') = n
             /\ \A j \in 1..n : /\ original_signal'[j] = original_signal[j]
                                /\ compressed_signal'[j] = compressed_signal[j]]_vars

C6_Witness ==
    /\ pc = "calc"
    /\ min_length = 1
    /\ original_signal = <<Fin(1, 0)>>
    /\ compressed_signal = <<Fin(5, -1)>>

\* C7: every bar height passed to the two SNR charts is a finite number.
C7_BarHeightsFinite ==
    \A n \in 1..Len(charts) :
        charts[n].kind \in {"wav", "combined"} =>
            \A j \in 1..Len(charts[n].heights) : IsFinite(charts[n].heights[j])

\* C8: once a load has raised, the run is over: the interpreter has exited,
\* the failing entry and the later ones have no record, the failing load is
\* the last load made, no chart exists, and nothing changes afterwards.
C8_LoadFailureAborts ==
    /\ [](raised # NoError =>
            /\ pc = "aborted"
            /\ \A n \in 1..6 : Len(dataset[n]) = i - 1
            /\ Len(loaded) \in {2 * i - 1, 2 * i}
            /\ loaded[Len(loaded)] = raised
            /\ raised \in {files[i].original, files[i].compressed}
            /\ charts = <<>>
            /\ compressed_visual_snr_values = <<>>
            /\ wav_visual_snr_values = <<>>)
    /\ [][raised = NoError]_vars

C8_Witness ==
    /\ raised = "flow-aac.aac"
    /\ pc = "aborted"
    /\ Len(compressed_snr_values) = 1

C10_SequentialAppendOnly ==
    /\ [](/\ IsPrefix(loaded, PathsOf(files, Len(files)))
          /\ Len(loaded) <= 2 * (Len(compressed_snr_values) + 1))
    /\ [][/\ files' = files
          /\ \A n \in 1..6 : IsPrefix(dataset[n], dataset'[n])]_vars

C10_Witness ==
    /\ pc = "load_compressed"
    /\ i = 2
    /\ loaded = <<"elliot-og.wav", "elliot-mp3.mp3", "flow-og.wav">>
    /\ algorithm_labels = <<"ELLIOT-MP3">>

====
